---- MODULE Spec2Model ----
(***************************************************************************)
(* Checkerboard helper of ELIC (checkerboard_helper.py): mux, the two      *)
(* demux operations and their zero-filling inverses, over 4-D NHWC         *)
(* tensors.  A tensor is a record [shape, data]; shape is <<N,H,W,C>> and  *)
(* data maps every 0-based index <<n,r,c,k>> to its value.  A raised       *)
(* TensorFlow error is a record [err |-> <the op that raised it>].         *)
(***************************************************************************)
EXTENDS Integers, Sequences, FiniteSets, TLC

VARIABLES input, value, calls

vars == <<input, value, calls>>

(* ------------------------------ bounds --------------------------------- *)
MaxN == 2
MaxH == 4
MaxW == 4
MaxC == 4
MaxCalls == 2

(* ------------------------- program constants --------------------------- *)
BlockSize == 2

(* ------------------------------ tensors -------------------------------- *)
Idx(s) == (0 .. s[1] - 1) \X (0 .. s[2] - 1) \X (0 .. s[3] - 1) \X (0 .. s[4] - 1)

Tensor(s, d) == [shape |-> s, data |-> d]

Raise(op) == [err |-> op]

IsErr(t) == "err" \in DOMAIN t

IsTensor(t) == "shape" \in DOMAIN t

(* space_to_depth without its divisibility check: the odd row or column is *)
(* silently cut off                                                        *)
space_to_depth_truncating(t) ==
  IF IsErr(t) THEN t
  ELSE LET c == t.shape[4]
           s == <<t.shape[1], t.shape[2] \div BlockSize,
                  t.shape[3] \div BlockSize, c * BlockSize * BlockSize>>
           src(p) == t.data[<<p[1],
                              p[2] * BlockSize + ((p[4] \div c) \div BlockSize),
                              p[3] * BlockSize + ((p[4] \div c) % BlockSize),
                              p[4] % c>>]
       IN Tensor(s, [p \in Idx(s) |-> src(p)])

(* tf.nn.space_to_depth(x, block_size=2) on NHWC data: every 2x2 tile      *)
(* becomes 4*C channels, channel (2*dy+dx)*C + k holding x[n,2i+dy,2j+dx,k];*)
(* the op raises when H or W is not divisible by the block size.           *)
space_to_depth(t) ==
  IF IsErr(t) THEN t
  ELSE IF t.shape[2] % BlockSize # 0 \/ t.shape[3] % BlockSize # 0
  THEN Raise("space_to_depth")
  ELSE LET c == t.shape[4]
           s == <<t.shape[1], t.shape[2] \div BlockSize,
                  t.shape[3] \div BlockSize, c * BlockSize * BlockSize>>
           src(p) == t.data[<<p[1],
                              p[2] * BlockSize + ((p[4] \div c) \div BlockSize),
                              p[3] * BlockSize + ((p[4] \div c) % BlockSize),
                              p[4] % c>>]
       IN Tensor(s, [p \in Idx(s) |-> src(p)])

(* depth_to_space with the row and column offsets of a tile exchanged *)
depth_to_space_transposed(t) ==
  IF IsErr(t) THEN t
  ELSE IF t.shape[4] % (BlockSize * BlockSize) # 0
  THEN Raise("depth_to_space")
  ELSE LET c == t.shape[4] \div (BlockSize * BlockSize)
           s == <<t.shape[1], t.shape[2] * BlockSize, t.shape[3] * BlockSize, c>>
           src(p) == t.data[<<p[1], p[2] \div BlockSize, p[3] \div BlockSize,
                              ((p[3] % BlockSize) * BlockSize + (p[2] % BlockSize)) * c
                                + p[4]>>]
       IN Tensor(s, [p \in Idx(s) |-> src(p)])

(* tf.nn.depth_to_space(x, block_size=2): the inverse rearrangement; the   *)
(* op raises when the depth is not divisible by block_size^2 (a depth of 0 *)
(* is divisible and gives a tensor without channels).                      *)
depth_to_space(t) ==
  IF IsErr(t) THEN t
  ELSE IF t.shape[4] % (BlockSize * BlockSize) # 0
  THEN Raise("depth_to_space")
  ELSE LET c == t.shape[4] \div (BlockSize * BlockSize)
           s == <<t.shape[1], t.shape[2] * BlockSize, t.shape[3] * BlockSize, c>>
           src(p) == t.data[<<p[1], p[2] \div BlockSize, p[3] \div BlockSize,
                              ((p[2] % BlockSize) * BlockSize + (p[3] % BlockSize)) * c
                                + p[4]>>]
       IN Tensor(s, [p \in Idx(s) |-> src(p)])

(* tf.slice(x, [0, 0, 0, begin], [-1, -1, -1, size]): channels             *)
(* begin .. begin+size-1; raises when the band leaves the tensor.          *)
slice(t, begin, size) ==
  IF IsErr(t) THEN t
  ELSE IF begin + size > t.shape[4]
  THEN Raise("slice")
  ELSE LET s == <<t.shape[1], t.shape[2], t.shape[3], size>>
           src(p) == t.data[<<p[1], p[2], p[3], begin + p[4]>>]
       IN Tensor(s, [p \in Idx(s) |-> src(p)])

(* tf.zeros(tf.shape(x)) *)
zeros(t) ==
  IF IsErr(t) THEN t
  ELSE LET z(p) == 0 IN Tensor(t.shape, [p \in Idx(t.shape) |-> z(p)])

(* tf.concat([t1, t2, t3, ...], axis=-1): the operands are evaluated in    *)
(* list order, so the first raised error is the one the caller sees; the   *)
(* op itself raises when the leading dimensions differ.                    *)
RECURSIVE Depth(_, _)
Depth(ts, i) == IF i = 0 THEN 0 ELSE Depth(ts, i - 1) + ts[i].shape[4]

concat(ts) ==
  IF \E i \in 1 .. Len(ts) : IsErr(ts[i])
  THEN ts[CHOOSE i \in 1 .. Len(ts) :
            IsErr(ts[i]) /\ \A j \in 1 .. i - 1 : ~IsErr(ts[j])]
  ELSE IF \E i \in 2 .. Len(ts) :
            \E d \in 1 .. 3 : ts[i].shape[d] # ts[1].shape[d]
  THEN Raise("concat")
  ELSE LET s == <<ts[1].shape[1], ts[1].shape[2], ts[1].shape[3], Depth(ts, Len(ts))>>
           part(k) == CHOOSE i \in 1 .. Len(ts) :
                        Depth(ts, i - 1) <= k /\ k < Depth(ts, i)
           src(p) == ts[part(p[4])].data[<<p[1], p[2], p[3],
                                           p[4] - Depth(ts, part(p[4]) - 1)>>]
       IN Tensor(s, [p \in Idx(s) |-> src(p)])

(* --------------------------- the operations ---------------------------- *)
(* mux with the roles of alpha and beta exchanged *)
mux_swapped(alpha, beta) ==
  LET c == alpha.shape[4]
      alpha_s == space_to_depth(alpha)
      alpha_slice_2 == slice(alpha_s, c, c)
      alpha_slice_3 == slice(alpha_s, 2 * c, c)
      beta_s == IF IsErr(alpha_s) THEN alpha_s ELSE space_to_depth(beta)
      beta_slice_1 == slice(beta_s, 0, c)
      beta_slice_4 == slice(beta_s, 3 * c, c)
      mix == concat(<<beta_slice_1, alpha_slice_2, alpha_slice_3, beta_slice_4>>)
  IN depth_to_space(mix)

mux(alpha, beta) ==
  LET c == alpha.shape[4]
      alpha_s == space_to_depth(alpha)
      alpha_slice_1 == slice(alpha_s, 0, c)
      alpha_slice_4 == slice(alpha_s, 3 * c, c)
      beta_s == IF IsErr(alpha_s) THEN alpha_s ELSE space_to_depth(beta)
      beta_slice_2 == slice(beta_s, c, c)
      beta_slice_3 == slice(beta_s, 2 * c, c)
      mix == concat(<<alpha_slice_1, beta_slice_2, beta_slice_3, alpha_slice_4>>)
  IN depth_to_space(mix)

(* demux_nonanchor taking its second slice at 2c (slice C) instead of 3c *)
demux_nonanchor_slice_C(demux_input) ==
  LET c == demux_input.shape[4]
      demux_nonanchor_slice == space_to_depth(demux_input)
      demux_nonanchor_slice_1 == slice(demux_nonanchor_slice, 0, c)
      demux_nonanchor_slice_2 == slice(demux_nonanchor_slice, 2 * c, c)
  IN concat(<<demux_nonanchor_slice_1, demux_nonanchor_slice_2>>)

demux_nonanchor(demux_input) ==
  LET c == demux_input.shape[4]
      demux_nonanchor_slice == space_to_depth(demux_input)
      demux_nonanchor_slice_1 == slice(demux_nonanchor_slice, 0, c)
      demux_nonanchor_slice_2 == slice(demux_nonanchor_slice, 3 * c, c)
  IN concat(<<demux_nonanchor_slice_1, demux_nonanchor_slice_2>>)

(* demux_anchor concatenating slice C before slice B *)
demux_anchor_CB(demux_input) ==
  LET c == demux_input.shape[4]
      demux_anchor_slice == space_to_depth(demux_input)
      demux_anchor_slice_1 == slice(demux_anchor_slice, c, c)
      demux_anchor_slice_2 == slice(demux_anchor_slice, 2 * c, c)
  IN concat(<<demux_anchor_slice_2, demux_anchor_slice_1>>)

demux_anchor(demux_input) ==
  LET c == demux_input.shape[4]
      demux_anchor_slice == space_to_depth(demux_input)
      demux_anchor_slice_1 == slice(demux_anchor_slice, c, c)
      demux_anchor_slice_2 == slice(demux_anchor_slice, 2 * c, c)
  IN concat(<<demux_anchor_slice_1, demux_anchor_slice_2>>)

(* demux_nonanchor_inverse putting its second half next to the first *)
demux_nonanchor_inverse_AB(demux_input) ==
  LET c == demux_input.shape[4] \div 2
      demux_nonanchor_inverse_1 == slice(demux_input, 0, c)
      demux_nonanchor_inverse_2 == slice(demux_input, c, c)
      zeros_slice == zeros(demux_nonanchor_inverse_1)
      mix == concat(<<demux_nonanchor_inverse_1, demux_nonanchor_inverse_2,
                      zeros_slice, zeros_slice>>)
  IN depth_to_space(mix)

demux_nonanchor_inverse(demux_input) ==
  LET c == demux_input.shape[4] \div 2
      demux_nonanchor_inverse_1 == slice(demux_input, 0, c)
      demux_nonanchor_inverse_2 == slice(demux_input, c, c)
      zeros_slice == zeros(demux_nonanchor_inverse_1)
      mix == concat(<<demux_nonanchor_inverse_1, zeros_slice, zeros_slice,
                      demux_nonanchor_inverse_2>>)
  IN depth_to_space(mix)

(* demux_anchor_inverse placing its second half where the comment's label *)
(* "slice D" points                                                        *)
demux_anchor_inverse_label_D(demux_input) ==
  LET c == demux_input.shape[4] \div 2
      demux_anchor_inverse_1 == slice(demux_input, 0, c)
      demux_anchor_inverse_2 == slice(demux_input, c, c)
      zeros_slice_non == zeros(demux_anchor_inverse_1)
      mix == concat(<<zeros_slice_non, demux_anchor_inverse_1,
                      zeros_slice_non, demux_anchor_inverse_2>>)
  IN depth_to_space(mix)

(* demux_anchor_inverse with its two halves exchanged *)
demux_anchor_inverse_CB(demux_input) ==
  LET c == demux_input.shape[4] \div 2
      demux_anchor_inverse_1 == slice(demux_input, 0, c)
      demux_anchor_inverse_2 == slice(demux_input, c, c)
      zeros_slice_non == zeros(demux_anchor_inverse_1)
      mix == concat(<<zeros_slice_non, demux_anchor_inverse_2,
                      demux_anchor_inverse_1, zeros_slice_non>>)
  IN depth_to_space(mix)

demux_anchor_inverse(demux_input) ==
  LET c == demux_input.shape[4] \div 2
      demux_anchor_inverse_1 == slice(demux_input, 0, c)
      demux_anchor_inverse_2 == slice(demux_input, c, c)
      zeros_slice_non == zeros(demux_anchor_inverse_1)
      mix == concat(<<zeros_slice_non, demux_anchor_inverse_1,
                      demux_anchor_inverse_2, zeros_slice_non>>)
  IN depth_to_space(mix)

(* ------------------------------ inputs --------------------------------- *)
Shapes == (1 .. MaxN) \X (1 .. MaxH) \X (1 .. MaxW) \X (1 .. MaxC)

(* row-major numbering of the elements, starting at base + 1 *)
Iota(s, base) ==
  LET f(p) == base + ((p[1] * s[2] + p[2]) * s[3] + p[3]) * s[4] + p[4] + 1
  IN Tensor(s, [p \in Idx(s) |-> f(p)])

Zeros(s) == LET f(p) == 0 IN Tensor(s, [p \in Idx(s) |-> f(p)])

(* t with every position of the other checkerboard class set to zero *)
Masked(t, parity) ==
  LET f(p) == IF (p[2] + p[3]) % 2 = parity THEN t.data[p] ELSE 0
  IN Tensor(t.shape, [p \in Idx(t.shape) |-> f(p)])

DocShape == <<1, 6, 6, 1>>

(* the 6x6 example of the comment in mux: y_hat and the two documented results *)
y_hat == Iota(DocShape, 0)

y_hat_anchor ==
  << << 0,  2,  0,  4,  0,  6>>,
     << 7,  0,  9,  0, 11,  0>>,
     << 0, 14,  0, 16,  0, 18>>,
     <<19,  0, 21,  0, 23,  0>>,
     << 0, 26,  0, 28,  0, 30>>,
     <<31,  0, 33,  0, 35,  0>> >>

y_hat_nonanchor ==
  << << 1,  0,  3,  0,  5,  0>>,
     << 0,  8,  0, 10,  0, 12>>,
     <<13,  0, 15,  0, 17,  0>>,
     << 0, 20,  0, 22,  0, 24>>,
     <<25,  0, 27,  0, 29,  0>>,
     << 0, 32,  0, 34,  0, 36>> >>

Inputs ==
  {y_hat} \cup
  UNION {{Iota(s, 0), Masked(Iota(s, 0), 0), Masked(Iota(s, 0), 1)} : s \in Shapes}

(* shapes that differ from s in at most one dimension, by one *)
Near(s) ==
  {u \in Shapes : \E d \in 1 .. 4 :
       /\ u[d] - s[d] \in {-1, 0, 1}
       /\ \A e \in (1 .. 4) \ {d} : u[e] = s[e]}

(* second arguments tried with a first argument a *)
BetaFor(a) ==
  {Zeros(a.shape), Iota(a.shape, 0)} \cup {Iota(u, 1000) : u \in Near(a.shape)}

(* ------------------------------ actions -------------------------------- *)
(* one tensor enters; both registers hold it *)
Init ==
  /\ \E t \in Inputs : input = [alpha |-> t, beta |-> t]
  /\ value = input
  /\ calls = [alpha |-> <<>>, beta |-> <<>>]

(* the caller supplies two arguments of its own choosing *)
InitCall ==
  /\ \E a \in Inputs \cup {Zeros(t.shape) : t \in Inputs} :
       \E b \in BetaFor(a) : input = [alpha |-> a, beta |-> b]
  /\ value = input
  /\ calls = [alpha |-> <<>>, beta |-> <<>>]

(* the codec's input: a feature map the checkerboard tiles exactly *)
InitCodec ==
  /\ \E t \in {y_hat} \cup {Iota(s, 0) : s \in Shapes} :
       /\ t.shape[2] % BlockSize = 0 /\ t.shape[3] % BlockSize = 0
       /\ input = [alpha |-> t, beta |-> t]
  /\ value = input
  /\ calls = [alpha |-> <<>>, beta |-> <<>>]

(* a call on register r: a raised error ends that register's computation *)
Call(r, name, result) ==
  /\ IsTensor(value[r])
  /\ Len(calls[r]) < MaxCalls
  /\ value' = [value EXCEPT ![r] = result]
  /\ calls' = [calls EXCEPT ![r] = Append(@, name)]
  /\ UNCHANGED input

DemuxNonanchor(r) == Call(r, "demux_nonanchor", demux_nonanchor(value[r]))

DemuxAnchor(r) == Call(r, "demux_anchor", demux_anchor(value[r]))

DemuxNonanchorInverse(r) ==
  Call(r, "demux_nonanchor_inverse", demux_nonanchor_inverse(value[r]))

DemuxAnchorInverse(r) ==
  Call(r, "demux_anchor_inverse", demux_anchor_inverse(value[r]))

SpaceToDepth(r) == Call(r, "space_to_depth", space_to_depth(value[r]))

DepthToSpace(r) == Call(r, "depth_to_space", depth_to_space(value[r]))

(* mux(alpha, beta): the result replaces alpha; its history records what   *)
(* had been applied to each argument                                       *)
Mux ==
  /\ IsTensor(value.alpha) /\ IsTensor(value.beta)
  /\ Len(calls.alpha) <= MaxCalls /\ Len(calls.beta) <= MaxCalls
  /\ \A i \in 1 .. Len(calls.alpha) : calls.alpha[i] # "mux"
  /\ value' = [value EXCEPT !.alpha = mux(value.alpha, value.beta)]
  /\ calls' = [calls EXCEPT !.alpha = @ \o <<"beta">> \o calls.beta \o <<"mux">>]
  /\ UNCHANGED input

Fresh == calls.alpha = <<>> /\ calls.beta = <<>>

(* chains of demux calls on one tensor *)
Next ==
  \/ DemuxNonanchor("alpha")
  \/ DemuxAnchor("alpha")
  \/ DemuxNonanchorInverse("alpha")
  \/ DemuxAnchorInverse("alpha")

Spec == Init /\ [][Next]_vars

(* a single call of one of the five operations on the caller's arguments *)
NextCall ==
  \/ Fresh /\ Mux
  \/ Fresh /\ DemuxNonanchor("alpha")
  \/ Fresh /\ DemuxAnchor("alpha")
  \/ Fresh /\ DemuxNonanchorInverse("alpha")
  \/ Fresh /\ DemuxAnchorInverse("alpha")

SpecCall == InitCall /\ [][NextCall]_vars

(* the two branches of the codec: alpha carries the non-anchor half, beta  *)
(* the anchor half, and mux joins them                                     *)
NextCodec ==
  \/ DemuxNonanchor("alpha")
  \/ DemuxNonanchorInverse("alpha")
  \/ DemuxAnchor("beta")
  \/ DemuxAnchorInverse("beta")
  \/ Mux

SpecCodec == InitCodec /\ [][NextCodec]_vars

(* the block-repack primitive on its own *)
NextRepack ==
  \/ SpaceToDepth("alpha")
  \/ DepthToSpace("alpha")

SpecRepack == Init /\ [][NextRepack]_vars

(* ------------------------------ claims --------------------------------- *)
T == input.alpha

Out == value.alpha

Even(t) == t.shape[2] % BlockSize = 0 /\ t.shape[3] % BlockSize = 0

Called(names) == calls.alpha = names

MuxCalled == Called(<<"beta", "mux">>)

(* the element of a documented 6x6 matrix at 0-based (r, c) *)
MatchesDoc(t, doc) ==
  \A r \in 0 .. 5 : \A c \in 0 .. 5 : t.data[<<0, r, c, 0>>] = doc[r + 1][c + 1]

(* C1: for equal-shaped A and B with even H and W, mux(A, B) has their     *)
(* shape and holds A's value where r+c is even and B's where r+c is odd;   *)
(* mux(zeros, y_hat) and mux(y_hat, zeros) are the two documented 6x6      *)
(* matrices.                                                               *)
C1_MuxCheckerboard ==
  (MuxCalled /\ T.shape = input.beta.shape /\ Even(T)) =>
    /\ IsTensor(Out)
    /\ Out.shape = T.shape
    /\ \A p \in Idx(T.shape) :
         Out.data[p] = IF (p[2] + p[3]) % 2 = 0 THEN T.data[p] ELSE input.beta.data[p]
    /\ (T = Zeros(DocShape) /\ input.beta = y_hat) => MatchesDoc(Out, y_hat_anchor)
    /\ (T = y_hat /\ input.beta = Zeros(DocShape)) => MatchesDoc(Out, y_hat_nonanchor)

C1_Witness ==
  /\ MuxCalled
  /\ T = Zeros(DocShape) /\ input.beta = y_hat
  /\ IsTensor(Out)
  /\ Out.data[<<0, 0, 0, 0>>] = 0 /\ Out.data[<<0, 0, 1, 0>>] = 2
  /\ Out.data[<<0, 5, 4, 0>>] = 35

(* C2: mux(demux_nonanchor_inverse(demux_nonanchor(T)),                    *)
(* demux_anchor_inverse(demux_anchor(T))) is T, for every T with even H    *)
(* and W.                                                                  *)
C2_CodecRoundTrip ==
  (/\ Called(<<"demux_nonanchor", "demux_nonanchor_inverse", "beta",
               "demux_anchor", "demux_anchor_inverse", "mux">>)
   /\ input.beta = T /\ Even(T)) =>
    Out = T

C2_Witness ==
  /\ Called(<<"demux_nonanchor", "demux_nonanchor_inverse", "beta",
              "demux_anchor", "demux_anchor_inverse", "mux">>)
  /\ T.shape[1] >= 2 /\ T.shape[2] >= 4 /\ T.shape[3] >= 4 /\ T.shape[4] >= 2
  /\ Out = T

(* C3: demux_nonanchor_inverse(demux_nonanchor(T)) is T at the r+c even    *)
(* positions and zero at the others, demux_anchor_inverse(demux_anchor(T)) *)
(* is T at the r+c odd positions and zero at the others; either equals T   *)
(* only if T is zero on the other class.                                   *)
ZeroOn(t, parity) ==
  \A p \in Idx(t.shape) : (p[2] + p[3]) % 2 = parity => t.data[p] = 0

C3_SplitUnsplit ==
  /\ (Called(<<"demux_nonanchor", "demux_nonanchor_inverse">>) /\ Even(T)) =>
       /\ IsTensor(Out)
       /\ Out.shape = T.shape
       /\ \A p \in Idx(T.shape) :
            Out.data[p] = IF (p[2] + p[3]) % 2 = 0 THEN T.data[p] ELSE 0
       /\ (Out = T) <=> ZeroOn(T, 1)
  /\ (Called(<<"demux_anchor", "demux_anchor_inverse">>) /\ Even(T)) =>
       /\ IsTensor(Out)
       /\ Out.shape = T.shape
       /\ \A p \in Idx(T.shape) :
            Out.data[p] = IF (p[2] + p[3]) % 2 = 1 THEN T.data[p] ELSE 0
       /\ (Out = T) <=> ZeroOn(T, 0)

C3_Witness ==
  /\ Called(<<"demux_nonanchor", "demux_nonanchor_inverse">>)
  /\ T.shape[2] >= 4 /\ T.shape[3] >= 4 /\ T.shape[4] >= 2
  /\ ~ZeroOn(T, 1)
  /\ IsTensor(Out) /\ Out # T /\ ZeroOn(Out, 1) /\ ~ZeroOn(Out, 0)

(* C4: space_to_depth of an even-shaped (N,H,W,C) tensor has shape         *)
(* (N,H/2,W/2,4C) with channel (2*dy+dx)*C + k of tile (i,j) holding       *)
(* T[n,2i+dy,2j+dx,k], and depth_to_space brings T back.                   *)
C4_RepackBijection ==
  /\ (Called(<<"space_to_depth">>) /\ Even(T)) =>
       /\ IsTensor(Out)
       /\ Out.shape = <<T.shape[1], T.shape[2] \div 2, T.shape[3] \div 2, 4 * T.shape[4]>>
       /\ \A n \in 0 .. T.shape[1] - 1 : \A i \in 0 .. (T.shape[2] \div 2) - 1 :
          \A j \in 0 .. (T.shape[3] \div 2) - 1 : \A k \in 0 .. T.shape[4] - 1 :
          \A dy \in {0, 1} : \A dx \in {0, 1} :
            Out.data[<<n, i, j, (2 * dy + dx) * T.shape[4] + k>>]
              = T.data[<<n, 2 * i + dy, 2 * j + dx, k>>]
  /\ (Called(<<"space_to_depth", "depth_to_space">>) /\ Even(T)) => Out = T

C4_Witness ==
  /\ Called(<<"space_to_depth", "depth_to_space">>)
  /\ T.shape[2] >= 4 /\ T.shape[3] >= 4 /\ T.shape[4] >= 2
  /\ ~ZeroOn(T, 0) /\ ~ZeroOn(T, 1)
  /\ Out = T

(* C5 as amended: mux, demux_nonanchor and demux_anchor raise the          *)
(* space_to_depth error when an argument has odd H or W; the two inverses  *)
(* take an (N,h,w,2C) input with odd h or w and return a tensor of shape   *)
(* (N,2h,2w,C).                                                            *)
Odd(t) == ~Even(t)

C5_OddShapes ==
  /\ (MuxCalled /\ (Odd(T) \/ Odd(input.beta))) => Out = Raise("space_to_depth")
  /\ ((Called(<<"demux_nonanchor">>) \/ Called(<<"demux_anchor">>)) /\ Odd(T)) =>
       Out = Raise("space_to_depth")
  /\ ((Called(<<"demux_nonanchor_inverse">>) \/ Called(<<"demux_anchor_inverse">>))
        /\ Odd(T) /\ T.shape[4] % 2 = 0) =>
       /\ IsTensor(Out)
       /\ Out.shape = <<T.shape[1], 2 * T.shape[2], 2 * T.shape[3], T.shape[4] \div 2>>

C5_Witness ==
  /\ Called(<<"demux_anchor">>)
  /\ T.shape[2] = 3 /\ T.shape[3] = 2
  /\ Out = Raise("space_to_depth")

(* C5 as written: each of the five operations fails on an input with odd   *)
(* H or W (the inverses are given their (N,h,w,2C) inputs).                *)
C5_AllFailOnOdd ==
  /\ ((MuxCalled \/ Called(<<"demux_nonanchor">>) \/ Called(<<"demux_anchor">>))
        /\ Odd(T)) =>
       IsErr(Out)
  /\ ((Called(<<"demux_nonanchor_inverse">>) \/ Called(<<"demux_anchor_inverse">>))
        /\ Odd(T) /\ T.shape[4] % 2 = 0) =>
       IsErr(Out)

(* C6: mux fails when alpha and beta differ in shape. *)
C6_MuxShapeMismatchFails ==
  (MuxCalled /\ T.shape # input.beta.shape) => IsErr(Out)

(* C7: demux_nonanchor(T) and demux_anchor(T) have shape (N,H/2,W/2,2C);   *)
(* the first holds top-left then bottom-right of each tile, the second     *)
(* top-right then bottom-left.                                             *)
HalfIdx(t) ==
  (0 .. t.shape[1] - 1) \X (0 .. (t.shape[2] \div 2) - 1)
    \X (0 .. (t.shape[3] \div 2) - 1) \X (0 .. t.shape[4] - 1)

C7_SplitLayout ==
  /\ (Called(<<"demux_nonanchor">>) /\ Even(T)) =>
       /\ IsTensor(Out)
       /\ Out.shape = <<T.shape[1], T.shape[2] \div 2, T.shape[3] \div 2, 2 * T.shape[4]>>
       /\ \A p \in HalfIdx(T) :
            /\ Out.data[p] = T.data[<<p[1], 2 * p[2], 2 * p[3], p[4]>>]
            /\ Out.data[<<p[1], p[2], p[3], T.shape[4] + p[4]>>]
                 = T.data[<<p[1], 2 * p[2] + 1, 2 * p[3] + 1, p[4]>>]
  /\ (Called(<<"demux_anchor">>) /\ Even(T)) =>
       /\ IsTensor(Out)
       /\ Out.shape = <<T.shape[1], T.shape[2] \div 2, T.shape[3] \div 2, 2 * T.shape[4]>>
       /\ \A p \in HalfIdx(T) :
            /\ Out.data[p] = T.data[<<p[1], 2 * p[2], 2 * p[3] + 1, p[4]>>]
            /\ Out.data[<<p[1], p[2], p[3], T.shape[4] + p[4]>>]
                 = T.data[<<p[1], 2 * p[2] + 1, 2 * p[3], p[4]>>]

C7_Witness ==
  /\ Called(<<"demux_anchor">>)
  /\ T = Iota(<<2, 4, 4, 2>>, 0)
  /\ IsTensor(Out) /\ Out.shape = <<2, 2, 2, 4>>

(* C8: for Z of shape (N,h,w,2C) both inverses return (N,2h,2w,C);         *)
(* demux_nonanchor_inverse puts the first C channels top-left and the last *)
(* C bottom-right, demux_anchor_inverse puts the first C channels          *)
(* top-right and the last C bottom-left; the other two positions are zero. *)
ZIdx(t) ==
  (0 .. t.shape[1] - 1) \X (0 .. t.shape[2] - 1) \X (0 .. t.shape[3] - 1)
    \X (0 .. (t.shape[4] \div 2) - 1)

C8_UnsplitLayout ==
  /\ (Called(<<"demux_nonanchor_inverse">>) /\ T.shape[4] % 2 = 0) =>
       /\ IsTensor(Out)
       /\ Out.shape = <<T.shape[1], 2 * T.shape[2], 2 * T.shape[3], T.shape[4] \div 2>>
       /\ \A p \in ZIdx(T) :
            /\ Out.data[<<p[1], 2 * p[2], 2 * p[3], p[4]>>] = T.data[p]
            /\ Out.data[<<p[1], 2 * p[2] + 1, 2 * p[3] + 1, p[4]>>]
                 = T.data[<<p[1], p[2], p[3], (T.shape[4] \div 2) + p[4]>>]
            /\ Out.data[<<p[1], 2 * p[2], 2 * p[3] + 1, p[4]>>] = 0
            /\ Out.data[<<p[1], 2 * p[2] + 1, 2 * p[3], p[4]>>] = 0
  /\ (Called(<<"demux_anchor_inverse">>) /\ T.shape[4] % 2 = 0) =>
       /\ IsTensor(Out)
       /\ Out.shape = <<T.shape[1], 2 * T.shape[2], 2 * T.shape[3], T.shape[4] \div 2>>
       /\ \A p \in ZIdx(T) :
            /\ Out.data[<<p[1], 2 * p[2], 2 * p[3] + 1, p[4]>>] = T.data[p]
            /\ Out.data[<<p[1], 2 * p[2] + 1, 2 * p[3], p[4]>>]
                 = T.data[<<p[1], p[2], p[3], (T.shape[4] \div 2) + p[4]>>]
            /\ Out.data[<<p[1], 2 * p[2], 2 * p[3], p[4]>>] = 0
            /\ Out.data[<<p[1], 2 * p[2] + 1, 2 * p[3] + 1, p[4]>>] = 0

C8_Witness ==
  /\ Called(<<"demux_anchor_inverse">>)
  /\ T = Iota(<<2, 3, 2, 4>>, 0)
  /\ IsTensor(Out) /\ Out.shape = <<2, 6, 4, 2>>
  /\ Out.data[<<0, 0, 1, 0>>] = 1 /\ Out.data[<<0, 1, 0, 0>>] = 3

(* C9: for Z with an even channel count, demux_nonanchor after             *)
(* demux_nonanchor_inverse and demux_anchor after demux_anchor_inverse     *)
(* give Z back, and the two crossed compositions give all zeros of Z's     *)
(* shape.                                                                  *)
C9_UnsplitThenSplit ==
  T.shape[4] % 2 = 0 =>
    /\ Called(<<"demux_nonanchor_inverse", "demux_nonanchor">>) => Out = T
    /\ Called(<<"demux_anchor_inverse", "demux_anchor">>) => Out = T
    /\ Called(<<"demux_nonanchor_inverse", "demux_anchor">>) => Out = Zeros(T.shape)
    /\ Called(<<"demux_anchor_inverse", "demux_nonanchor">>) => Out = Zeros(T.shape)

C9_Witness ==
  /\ Called(<<"demux_nonanchor_inverse", "demux_anchor">>)
  /\ T.shape[4] = 4 /\ T.shape[2] >= 3
  /\ ~ZeroOn(T, 0)
  /\ Out = Zeros(T.shape)

(* C10: an inverse call on a tensor of K >= 2 channels holding pairwise     *)
(* distinct non-zero values either fails or puts every input value at      *)
(* exactly one output position.                                            *)
C10_UnsplitKeepsEveryValue ==
  (/\ Called(<<"demux_nonanchor_inverse">>) \/ Called(<<"demux_anchor_inverse">>)
   /\ T.shape[4] >= 2
   /\ T = Iota(T.shape, 0)) =>
    \/ IsErr(Out)
    \/ \A p \in Idx(T.shape) :
         Cardinality({q \in Idx(Out.shape) : Out.data[q] = T.data[p]}) = 1

====
